---- MODULE Spec2Model ----
(***************************************************************************)
(* Model of the homepage feature cards of the documentation site:          *)
(*   src/src/components/HomepageFeatures/index.tsx                          *)
(*     FeatureList       the module-level list of FeatureItem records       *)
(*     Feature           one FeatureItem -> the markup of one card          *)
(*     HomepageFeatures  section > container > row of <Feature key={idx}>   *)
(*   src/docs/aks/*.md   the documents the cards link to                    *)
(*                                                                         *)
(* Markup is modelled as the element tree JSX builds: an element is a       *)
(* record [type, props] (a <Feature> element also carries its key); text   *)
(* in a fragment is a record [type |-> "#text", value]; a string child      *)
(* ({title}, the literal Read) is the string itself.                        *)
(*                                                                         *)
(* A render of the homepage for one page view is a sequence of steps:       *)
(*   CallHomepageFeatures    the function is entered, map starts            *)
(*   MapCallback             map calls the arrow function on the next entry *)
(*   ReturnHomepageFeatures  the section element is returned                *)
(*   CallFeature             the renderer calls Feature on the next element *)
(*   Commit                  the expanded tree becomes the view's output    *)
(* Arrays are 1-based sequences here; idx is the 0-based index of the code. *)
(***************************************************************************)
EXTENDS Integers, Sequences, FiniteSets

VARIABLES
    FeatureList,  \* the module-level const array of FeatureItem (index.tsx:13)
    pc,           \* per page view: "idle", "map" (inside FeatureList.map), "features"
    k,            \* per page view: how many entries / elements the current pass has visited
    elems,        \* per page view: the array map is building
    tree,         \* per page view: the element HomepageFeatures returned
    cards,        \* per page view: what Feature returned for the elements visited so far
    output,       \* per page view: the committed, fully expanded tree
    renders       \* per page view: number of committed renders

vars == <<FeatureList, pc, k, elems, tree, cards, output, renders>>

\* ------------------------------------------------------------------ bounds
MaxLen == 2       \* longest FeatureList drawn by Init
MaxRenders == 2   \* renders per page view

Views == {"view1", "view2"}

\* ------------------------------------------------------------ the documents
DocAksWorkloadIdentity == [dir |-> "docs/aks", name |-> "aks-workload-identity", ext |-> "md"]

DocAksScaling == [dir |-> "docs/aks", name |-> "aks-scaling", ext |-> "md"]

DocFiles == {DocAksWorkloadIdentity, DocAksScaling}

\* The route a document is published under: its path from the site root,
\* without the extension.
DocRoute(doc) == "/" \o doc.dir \o "/" \o doc.name

PublishedRoutes == {DocRoute(doc) : doc \in DocFiles}

\* ------------------------------------------------------------- FeatureItem
Text(s) == [type |-> "#text", value |-> s]

Fragment(children) == [type |-> "Fragment", props |-> [children |-> children]]

AzureAksColorSvg == "@site/static/img/azure-aks-color.svg"

DeclaredFeatureListTypo ==
    << [title |-> "Workload Identities in AKS",
        Svg |-> AzureAksColorSvg,
        description |-> Fragment(<<Text("Learn how to setup your cluster for using Azure Workload Identity")>>),
        linkTo |-> "/docs/aks/aks-workload-identity"],
       [title |-> "Scaling pods and nodes in AKS",
        Svg |-> AzureAksColorSvg,
        description |-> Fragment(<<Text("Learn how to scale your AKS resources using KEDA and Cluster Autoscaler")>>),
        linkTo |-> "/docs/aks/aks-scalling"] >>

\* Variant of the literal with the second entry pasted from the first and its
\* linkTo left unedited.
DeclaredFeatureListPastedLink ==
    << [title |-> "Workload Identities in AKS",
        Svg |-> AzureAksColorSvg,
        description |-> Fragment(<<Text("Learn how to setup your cluster for using Azure Workload Identity")>>),
        linkTo |-> "/docs/aks/aks-workload-identity"],
       [title |-> "Scaling pods and nodes in AKS",
        Svg |-> AzureAksColorSvg,
        description |-> Fragment(<<Text("Learn how to scale your AKS resources using KEDA and Cluster Autoscaler")>>),
        linkTo |-> "/docs/aks/aks-workload-identity"] >>

DeclaredFeatureList ==
    << [title |-> "Workload Identities in AKS",
        Svg |-> AzureAksColorSvg,
        description |-> Fragment(<<Text("Learn how to setup your cluster for using Azure Workload Identity")>>),
        linkTo |-> "/docs/aks/aks-workload-identity"],
       [title |-> "Scaling pods and nodes in AKS",
        Svg |-> AzureAksColorSvg,
        description |-> Fragment(<<Text("Learn how to scale your AKS resources using KEDA and Cluster Autoscaler")>>),
        linkTo |-> "/docs/aks/aks-scaling"] >>

\* Entries the type FeatureItem admits besides the declared ones: an empty
\* title, a link to no document, a description with inline formatting.
FormattedDescription ==
    Fragment(<< Text("Scale with "),
                [type |-> "b", props |-> [children |-> <<Text("KEDA & <HPA>")>>]],
                Text(" today") >>)

BrokenLink == "/docs/aks/no-such-page"

FeatureItems ==
    { DeclaredFeatureList[1],
      DeclaredFeatureList[2],
      [DeclaredFeatureList[1] EXCEPT !.title = ""],
      [DeclaredFeatureList[2] EXCEPT !.linkTo = BrokenLink],
      [DeclaredFeatureList[1] EXCEPT !.description = FormattedDescription,
                                     !.linkTo = "/docs/aks/aks-scaling"],
      [DeclaredFeatureList[2] EXCEPT !.title = "", !.description = FormattedDescription,
                                     !.linkTo = BrokenLink] }

SeqsUpTo(S, n) == UNION { [1..m -> S] : m \in 0..n }

\* ------------------------------------------------------------------- clsx
\* clsx joins its truthy (non-empty) arguments with single spaces.
RECURSIVE clsx(_)
clsx(args) ==
    IF args = <<>> THEN ""
    ELSE LET rest == clsx(Tail(args))
         IN  IF Head(args) = "" THEN rest
             ELSE IF rest = "" THEN Head(args)
             ELSE Head(args) \o " " \o rest

\* ---------------------------------------------------------------- Feature
\* The JSX Feature returns, over its four destructured parameters.
Card(title, Svg, description, linkTo) ==
    [type |-> "div",
     props |-> [className |-> clsx(<<"col col--4">>),
                children |-> <<
        [type |-> "div",
         props |-> [className |-> "text--center",
                    children |-> <<
            [type |-> Svg,
             props |-> [className |-> "featureSvg", role |-> "img"]] >>]],
        [type |-> "div",
         props |-> [className |-> "text--center padding-horiz--md",
                    children |-> <<
            [type |-> "Heading",
             props |-> [as |-> "h3", children |-> title]],
            [type |-> "p",
             props |-> [children |-> description]],
            [type |-> "Link",
             props |-> [className |-> "button button--secondary button--lg",
                        to |-> linkTo,
                        children |-> "Read"]] >>]] >>]]

NullElement == [type |-> "#null"]

\* Variants of Feature with one plausible slip each.
FeatureLinkPrefixed(props) ==
    Card(props.title, props.Svg, props.description, "/docs" \o props.linkTo)

FeatureHeadingFromLink(props) ==
    Card(props.linkTo, props.Svg, props.description, props.linkTo)

FeatureDescriptionTruncated(props) ==
    Card(props.title, props.Svg,
         Fragment(<<Head(props.description.props.children)>>), props.linkTo)

FeatureValidating(props) ==
    IF props.title = "" \/ props.linkTo \notin PublishedRoutes
    THEN NullElement
    ELSE Card(props.title, props.Svg, props.description, props.linkTo)

\* Variant of Feature with the heading rendered only for a non-empty title
\* ({title && <Heading as="h3">{title}</Heading>}).
FeatureOmitsEmptyHeading(props) ==
    IF props.title = ""
    THEN [Card(props.title, props.Svg, props.description, props.linkTo)
             EXCEPT !.props.children[2].props.children = Tail(@)]
    ELSE Card(props.title, props.Svg, props.description, props.linkTo)

\* function Feature({title, Svg, description, linkTo}: FeatureItem)
Feature(props) == Card(props.title, props.Svg, props.description, props.linkTo)

\* Variant of the element creation: every element gets the same key.
FeatureElementConstantKey(props, idx) == [type |-> "Feature", key |-> 0, props |-> props]

\* <Feature key={idx} {...props} />
FeatureElement(props, idx) == [type |-> "Feature", key |-> idx, props |-> props]

\* The markup HomepageFeatures wraps around the mapped array.
Section(children) ==
    [type |-> "section",
     props |-> [className |-> "features",
                children |-> <<
        [type |-> "div",
         props |-> [className |-> "container",
                    children |-> <<
            [type |-> "div",
             props |-> [className |-> "row justify-content-center",
                        children |-> children]] >>]] >>]]

RowChildren(t) == t.props.children[1].props.children[1].props.children

NotRendered == [type |-> "#none"]

\* -------------------------------------------------------------------- Init
Init ==
    /\ FeatureList \in SeqsUpTo(FeatureItems, MaxLen)
    /\ pc = [v \in Views |-> "idle"]
    /\ k = [v \in Views |-> 0]
    /\ elems = [v \in Views |-> <<>>]
    /\ tree = [v \in Views |-> NotRendered]
    /\ cards = [v \in Views |-> <<>>]
    /\ output = [v \in Views |-> NotRendered]
    /\ renders = [v \in Views |-> 0]

InitDeclared ==
    /\ FeatureList = DeclaredFeatureList
    /\ pc = [v \in Views |-> "idle"]
    /\ k = [v \in Views |-> 0]
    /\ elems = [v \in Views |-> <<>>]
    /\ tree = [v \in Views |-> NotRendered]
    /\ cards = [v \in Views |-> <<>>]
    /\ output = [v \in Views |-> NotRendered]
    /\ renders = [v \in Views |-> 0]

\* ----------------------------------------------------------------- actions
\* Variants of the entry step: map run on FeatureList.reverse(), which reverses
\* the array in place; and a module-level array reused instead of a new one.
CallHomepageFeaturesReversing(v) ==
    /\ pc[v] = "idle"
    /\ renders[v] < MaxRenders
    /\ FeatureList' = [i \in 1..Len(FeatureList) |-> FeatureList[Len(FeatureList) + 1 - i]]
    /\ pc' = [pc EXCEPT ![v] = "map"]
    /\ k' = [k EXCEPT ![v] = 0]
    /\ elems' = [elems EXCEPT ![v] = <<>>]
    /\ UNCHANGED <<tree, cards, output, renders>>

CallHomepageFeaturesStaleArray(v) ==
    /\ pc[v] = "idle"
    /\ renders[v] < MaxRenders
    /\ pc' = [pc EXCEPT ![v] = "map"]
    /\ k' = [k EXCEPT ![v] = 0]
    /\ UNCHANGED <<FeatureList, elems, tree, cards, output, renders>>

\* HomepageFeatures() is entered for page view v; FeatureList.map allocates a
\* new array and starts at index 0.
CallHomepageFeatures(v) ==
    /\ pc[v] = "idle"
    /\ renders[v] < MaxRenders
    /\ pc' = [pc EXCEPT ![v] = "map"]
    /\ k' = [k EXCEPT ![v] = 0]
    /\ elems' = [elems EXCEPT ![v] = <<>>]
    /\ UNCHANGED <<FeatureList, tree, cards, output, renders>>

\* Variants of the map step: the result is put at the front of the array; and
\* a loop that runs while idx <= length, reading one entry past the end
\* (undefined, whose spread leaves every prop undefined).
MapCallbackUnshift(v) ==
    /\ pc[v] = "map"
    /\ k[v] < Len(FeatureList)
    /\ elems' = [elems EXCEPT ![v] = <<FeatureElement(FeatureList[k[v] + 1], k[v])>> \o @]
    /\ k' = [k EXCEPT ![v] = @ + 1]
    /\ UNCHANGED <<FeatureList, pc, tree, cards, output, renders>>

UndefinedProps ==
    [title |-> "undefined", Svg |-> "undefined", description |-> Fragment(<<>>),
     linkTo |-> "undefined"]

MapCallbackPastEnd(v) ==
    /\ pc[v] = "map"
    /\ k[v] <= Len(FeatureList)
    /\ Len(elems[v]) <= Len(FeatureList)
    /\ elems' = [elems EXCEPT ![v] =
                    Append(@, FeatureElement(IF k[v] < Len(FeatureList)
                                             THEN FeatureList[k[v] + 1]
                                             ELSE UndefinedProps, Len(@)))]
    /\ k' = [k EXCEPT ![v] = IF @ < Len(FeatureList) THEN @ + 1 ELSE @]
    /\ UNCHANGED <<FeatureList, pc, tree, cards, output, renders>>

\* Variant of the map step with one module-level result array shared by all
\* renders instead of the array map allocates per call.
MapCallbackSharedArray(v) ==
    /\ pc[v] = "map"
    /\ k[v] < Len(FeatureList)
    /\ elems' = [w \in Views |->
                    IF pc[w] = "map"
                    THEN Append(elems[w], FeatureElement(FeatureList[k[v] + 1], k[v]))
                    ELSE elems[w]]
    /\ k' = [k EXCEPT ![v] = @ + 1]
    /\ UNCHANGED <<FeatureList, pc, tree, cards, output, renders>>

\* Variant of the map step that takes a module-level lock: the callback waits
\* while another render is inside its map.
MapCallbackAwaitsOthers(v) ==
    /\ pc[v] = "map"
    /\ \A w \in Views \ {v} : pc[w] # "map"
    /\ k[v] < Len(FeatureList)
    /\ elems' = [elems EXCEPT ![v] = Append(@, FeatureElement(FeatureList[k[v] + 1], k[v]))]
    /\ k' = [k EXCEPT ![v] = @ + 1]
    /\ UNCHANGED <<FeatureList, pc, tree, cards, output, renders>>

\* map calls (props, idx) => <Feature key={idx} {...props} /> on the next entry
\* and stores the result at the same index of the new array.
MapCallback(v) ==
    /\ pc[v] = "map"
    /\ k[v] < Len(FeatureList)
    /\ elems' = [elems EXCEPT ![v] = Append(@, FeatureElement(FeatureList[k[v] + 1], k[v]))]
    /\ k' = [k EXCEPT ![v] = @ + 1]
    /\ UNCHANGED <<FeatureList, pc, tree, cards, output, renders>>

\* map is past the last entry: HomepageFeatures returns the section.
ReturnHomepageFeatures(v) ==
    /\ pc[v] = "map"
    /\ k[v] = Len(FeatureList)
    /\ tree' = [tree EXCEPT ![v] = Section(elems[v])]
    /\ pc' = [pc EXCEPT ![v] = "features"]
    /\ k' = [k EXCEPT ![v] = 0]
    /\ cards' = [cards EXCEPT ![v] = <<>>]
    /\ UNCHANGED <<FeatureList, elems, output, renders>>

\* The renderer calls Feature with the props of the next <Feature> element of
\* the row.
CallFeature(v) ==
    /\ pc[v] = "features"
    /\ k[v] < Len(RowChildren(tree[v]))
    /\ cards' = [cards EXCEPT ![v] = Append(@, Feature(RowChildren(tree[v])[k[v] + 1].props))]
    /\ k' = [k EXCEPT ![v] = @ + 1]
    /\ UNCHANGED <<FeatureList, pc, elems, tree, output, renders>>

\* The tree with every <Feature> element expanded to what Feature returned.
Expanded(t, cs) ==
    Section([i \in 1..Len(RowChildren(t)) |->
                [type |-> RowChildren(t)[i].type,
                 key |-> RowChildren(t)[i].key,
                 props |-> RowChildren(t)[i].props,
                 rendered |-> cs[i]]])

\* Every element of the row is rendered: the pass is complete.
Commit(v) ==
    /\ pc[v] = "features"
    /\ k[v] = Len(RowChildren(tree[v]))
    /\ output' = [output EXCEPT ![v] = Expanded(tree[v], cards[v])]
    /\ renders' = [renders EXCEPT ![v] = @ + 1]
    /\ pc' = [pc EXCEPT ![v] = "idle"]
    /\ k' = [k EXCEPT ![v] = 0]
    /\ cards' = [cards EXCEPT ![v] = <<>>]
    /\ UNCHANGED <<FeatureList, elems, tree>>

Next ==
    \E v \in Views :
        \/ CallHomepageFeatures(v)
        \/ MapCallback(v)
        \/ ReturnHomepageFeatures(v)
        \/ CallFeature(v)
        \/ Commit(v)

Spec == Init /\ [][Next]_vars

SpecDeclared == InitDeclared /\ [][Next]_vars

\* A render that has been entered runs on: the body of HomepageFeatures and of
\* Feature is synchronous code, so each of its steps is taken once it is the
\* next one. Entering a render is on demand (a page view) and is not forced.
RenderStep(v) ==
    \/ MapCallback(v)
    \/ ReturnHomepageFeatures(v)
    \/ CallFeature(v)
    \/ Commit(v)

SpecFair == Init /\ [][Next]_vars /\ \A v \in Views : WF_vars(RenderStep(v))

\* ------------------------------------------------- reading a rendered tree
Rendered(v) == output[v] # NotRendered

\* The row's units of a committed output: one per <Feature> element, with its
\* key, its props and the card Feature returned for it.
Units(v) == RowChildren(output[v])

RECURSIVE ChildrenOfAll(_)
ChildrenOfAll(nodes) ==
    IF nodes = <<>> THEN <<>>
    ELSE Head(nodes).props.children \o ChildrenOfAll(Tail(nodes))

\* The parts of a card, left to right: the children of its two blocks.
IsCard(card) == card.type = "div" /\ card.props.className = "col col--4"

Parts(card) == ChildrenOfAll(card.props.children)

PartsOfType(card, t) == SelectSeq(Parts(card), LAMBDA e : e.type = t)

HasMalformedEntry ==
    \E i \in DOMAIN FeatureList :
        FeatureList[i].title = "" \/ FeatureList[i].linkTo \notin PublishedRoutes

\* --------------------------------------------------------------- the claims

\* C1: a committed render of a FeatureList of length N has exactly N units in
\* its row, and the i-th unit is the card Feature produces from the i-th entry
\* of the list: declaration order, nothing skipped, duplicated or reordered.
C1_OneCardPerEntryInOrder ==
    \A v \in Views :
        Rendered(v) =>
            /\ Len(Units(v)) = Len(FeatureList)
            /\ \A i \in 1..Len(FeatureList) :
                  /\ Units(v)[i].props = FeatureList[i]
                  /\ Units(v)[i].rendered = Feature(FeatureList[i])

C1_Witness ==
    \E v \in Views :
        /\ Rendered(v)
        /\ Len(FeatureList) = 2
        /\ FeatureList[1] # FeatureList[2]
        /\ Len(Units(v)) = 2

\* C2: the card of every entry has exactly one call-to-action link; its target
\* is the entry's linkTo, unchanged, and its label is "Read" whatever the entry.
C2_LinkTargetIsLinkTo ==
    \A v \in Views :
        Rendered(v) =>
            \A i \in 1..Len(Units(v)) :
                LET card == Units(v)[i].rendered
                    item == FeatureList[i]
                IN  /\ IsCard(card)
                    /\ Len(PartsOfType(card, "Link")) = 1
                    /\ PartsOfType(card, "Link")[1].props.to = item.linkTo
                    /\ PartsOfType(card, "Link")[1].props.children = "Read"
                    /\ item.linkTo = "/docs/aks/aks-scaling"
                          => PartsOfType(card, "Link")[1].props.to = "/docs/aks/aks-scaling"

C2_Witness ==
    \E v \in Views :
        /\ Rendered(v)
        /\ \E i \in 1..Len(Units(v)) :
              /\ FeatureList[i].linkTo = "/docs/aks/aks-scaling"
              /\ PartsOfType(Units(v)[i].rendered, "Link")[1].props.to = "/docs/aks/aks-scaling"
              /\ PartsOfType(Units(v)[i].rendered, "Link")[1].props.children = "Read"

\* C3: the heading of the card of every entry has the entry's title as its
\* text, exactly.
C3_HeadingIsTitle ==
    \A v \in Views :
        Rendered(v) =>
            \A i \in 1..Len(Units(v)) :
                LET card == Units(v)[i].rendered
                    item == FeatureList[i]
                IN  /\ IsCard(card)
                    /\ Len(PartsOfType(card, "Heading")) = 1
                    /\ PartsOfType(card, "Heading")[1].props.children = item.title
                    /\ item.title = "Workload Identities in AKS"
                          => PartsOfType(card, "Heading")[1].props.children
                                = "Workload Identities in AKS"

C3_Witness ==
    \E v \in Views :
        /\ Rendered(v)
        /\ \E i \in 1..Len(Units(v)) :
              /\ FeatureList[i].title = "Workload Identities in AKS"
              /\ PartsOfType(Units(v)[i].rendered, "Heading")[1].props.children
                    = "Workload Identities in AKS"

\* C4: every linkTo of the declared FeatureList is the route of a document
\* that exists under docs/aks, and so is the target of every link of every
\* card rendered from it: no card has a dangling link.
C4_DeclaredLinksArePublished ==
    /\ \A i \in 1..Len(FeatureList) :
          \E doc \in DocFiles :
              /\ doc.dir = "docs/aks"
              /\ DocRoute(doc) = FeatureList[i].linkTo
    /\ \A v \in Views :
          Rendered(v) =>
              \A i \in 1..Len(Units(v)) :
                  PartsOfType(Units(v)[i].rendered, "Link")[1].props.to \in PublishedRoutes

C4_Witness ==
    /\ FeatureList = DeclaredFeatureList
    /\ \E v \in Views :
          /\ Rendered(v)
          /\ Len(Units(v)) = 2
          /\ PartsOfType(Units(v)[1].rendered, "Link")[1].props.to
                = "/docs/aks/aks-workload-identity"
          /\ PartsOfType(Units(v)[2].rendered, "Link")[1].props.to
                = "/docs/aks/aks-scaling"

\* C5: no step of any render changes FeatureList: its length, entries and
\* order stay what they were at module load.
C5_FeatureListNeverMutated == [][FeatureList' = FeatureList]_vars

C5_Witness ==
    /\ FeatureList # <<>>
    /\ \E v, w \in Views :
          /\ v # w
          /\ renders[v] = MaxRenders
          /\ Rendered(w)
          /\ pc[w] = "features"

\* C6: rendering is deterministic. A render that commits an output for a view
\* commits the output every earlier render committed, for that view and for
\* every other view, whatever the number of renders before it; and within an
\* output, equal entries have equal cards.
C6_RendersAgree ==
    [][\A v \in Views :
          output'[v] # output[v] =>
              /\ output[v] = NotRendered
              /\ \A w \in Views :
                    output[w] # NotRendered => output'[v] = output[w]
              /\ \A i, j \in 1..Len(RowChildren(output'[v])) :
                    RowChildren(output'[v])[i].props = RowChildren(output'[v])[j].props
                        => RowChildren(output'[v])[i].rendered
                              = RowChildren(output'[v])[j].rendered]_vars

C6_Witness ==
    /\ FeatureList # <<>>
    /\ \A v \in Views : renders[v] = MaxRenders /\ Rendered(v)
    /\ \A v, w \in Views : output[v] = output[w]

\* C7: a render of an empty FeatureList commits the section > container > row
\* structure with no unit in the row; no callback and no Feature call happens
\* on the way.
C7_EmptyListEmptyRow ==
    FeatureList = <<>> =>
        \A v \in Views :
            /\ elems[v] = <<>>
            /\ cards[v] = <<>>
            /\ Rendered(v) =>
                  /\ output[v].type = "section"
                  /\ Len(output[v].props.children) = 1
                  /\ output[v].props.children[1].type = "div"
                  /\ output[v].props.children[1].props.className = "container"
                  /\ Len(output[v].props.children[1].props.children) = 1
                  /\ output[v].props.children[1].props.children[1].type = "div"
                  /\ output[v].props.children[1].props.children[1].props.className
                        = "row justify-content-center"
                  /\ output[v].props.children[1].props.children[1].props.children = <<>>

C7_Witness ==
    /\ FeatureList = <<>>
    /\ \E v \in Views : Rendered(v) /\ Units(v) = <<>>

\* C8: the paragraph of the card of every entry holds the entry's description
\* fragment itself: same fragment, same children, nothing cut or replaced.
C8_DescriptionVerbatim ==
    \A v \in Views :
        Rendered(v) =>
            \A i \in 1..Len(Units(v)) :
                LET card == Units(v)[i].rendered
                IN  /\ IsCard(card)
                    /\ Len(PartsOfType(card, "p")) = 1
                    /\ PartsOfType(card, "p")[1].props.children = FeatureList[i].description

C8_Witness ==
    \E v \in Views :
        /\ Rendered(v)
        /\ \E i \in 1..Len(Units(v)) :
              /\ FeatureList[i].description = FormattedDescription
              /\ PartsOfType(Units(v)[i].rendered, "p")[1].props.children
                    = FormattedDescription

\* C9: a list with a malformed entry (empty title, or a linkTo that is no
\* published route) renders like any other: every entry, the malformed one
\* included, gets a complete card (icon, heading, paragraph, link, in that
\* order) whose link carries the entry's linkTo.
C9_MalformedEntryStillRendered ==
    \A v \in Views :
        (Rendered(v) /\ HasMalformedEntry) =>
            /\ Len(Units(v)) = Len(FeatureList)
            /\ \A i \in 1..Len(Units(v)) :
                  LET card == Units(v)[i].rendered
                  IN  /\ IsCard(card)
                      /\ Len(Parts(card)) = 4
                      /\ Parts(card)[1].type = FeatureList[i].Svg
                      /\ Parts(card)[2].type = "Heading"
                      /\ Parts(card)[3].type = "p"
                      /\ Parts(card)[4].type = "Link"
                      /\ Parts(card)[4].props.to = FeatureList[i].linkTo

C9_Witness ==
    \E v \in Views :
        /\ Rendered(v)
        /\ Len(Units(v)) = 2
        /\ FeatureList[1].title = ""
        /\ FeatureList[1].linkTo = BrokenLink
        /\ FeatureList[2] = DeclaredFeatureList[2]
        /\ Parts(Units(v)[1].rendered)[4].props.to = BrokenLink
        /\ IsCard(Units(v)[2].rendered)

\* C10: the elements HomepageFeatures returns, and the units committed from
\* them, are keyed by position: the i-th has key i (counted from 0), so the keys
\* of a list of length N are exactly 0..N-1 and no two units share a key.
C10_KeyedByPosition ==
    \A v \in Views :
        /\ pc[v] = "features" =>
              \A i \in 1..Len(RowChildren(tree[v])) : RowChildren(tree[v])[i].key = i - 1
        /\ Rendered(v) =>
              /\ \A i \in 1..Len(Units(v)) : Units(v)[i].key = i - 1
              /\ {Units(v)[i].key : i \in 1..Len(Units(v))} = 0..(Len(FeatureList) - 1)
              /\ \A i, j \in 1..Len(Units(v)) : Units(v)[i].key = Units(v)[j].key => i = j

C10_Witness ==
    \E v \in Views :
        /\ Rendered(v)
        /\ Len(Units(v)) = 2
        /\ Units(v)[1].key = 0
        /\ Units(v)[2].key = 1

\* The number of parts of type t over all the cards of a sequence of units.
RECURSIVE CountParts(_, _)
CountParts(units, t) ==
    IF units = <<>> THEN 0
    ELSE (IF IsCard(Head(units).rendered)
          THEN Len(PartsOfType(Head(units).rendered, t))
          ELSE 0) + CountParts(Tail(units), t)

\* C11: every card has the same four parts whatever its entry: one icon, one
\* heading of level h3, one paragraph, one link, in that order; so a committed
\* render of N entries holds exactly N headings, all h3, and exactly N links.
C11_FixedCardStructure ==
    \A v \in Views :
        Rendered(v) =>
            /\ \A i \in 1..Len(Units(v)) :
                  LET card == Units(v)[i].rendered
                  IN  /\ IsCard(card)
                      /\ Len(card.props.children) = 2
                      /\ [j \in 1..Len(Parts(card)) |-> Parts(card)[j].type]
                            = <<Units(v)[i].props.Svg, "Heading", "p", "Link">>
                      /\ Parts(card)[1].props.role = "img"
                      /\ Parts(card)[2].props.as = "h3"
            /\ CountParts(Units(v), "Heading") = Len(FeatureList)
            /\ CountParts(Units(v), "Link") = Len(FeatureList)

C11_Witness ==
    \E v \in Views :
        /\ Rendered(v)
        /\ Len(Units(v)) = 2
        /\ FeatureList[1].title = ""
        /\ FeatureList[2].title # ""
        /\ CountParts(Units(v), "Heading") = 2
        /\ CountParts(Units(v), "Link") = 2
        /\ Parts(Units(v)[1].rendered)[2].props.as = "h3"

\* C12: a render that has been entered completes. While it is inside map it
\* has called the callback once on each of the first k entries, in order, and
\* on nothing else; once map is done every entry has been visited exactly once;
\* at every point of the render its next step is enabled whatever the other
\* renders are doing; and it reaches its commit: no render stays inside map or
\* inside the Feature calls forever, and a view is idle again only with its
\* output committed.
C12_RenderTerminates ==
    /\ [](\A v \in Views :
             /\ pc[v] = "map" =>
                   /\ k[v] <= Len(FeatureList)
                   /\ Len(elems[v]) = k[v]
                   /\ \A i \in 1..Len(elems[v]) :
                         elems[v][i].props = FeatureList[i] /\ elems[v][i].key = i - 1
             /\ pc[v] = "features" =>
                   /\ k[v] <= Len(FeatureList)
                   /\ Len(cards[v]) = k[v]
                   /\ Len(RowChildren(tree[v])) = Len(FeatureList)
             /\ pc[v] # "idle" => ENABLED RenderStep(v)
             /\ pc[v] = "idle" => (Rendered(v) <=> renders[v] > 0))
    /\ \A v \in Views : []<>(pc[v] = "idle")

C12_Witness ==
    \E v, w \in Views :
        /\ v # w
        /\ Len(FeatureList) = 2
        /\ pc[v] = "idle" /\ renders[v] = 1 /\ Len(Units(v)) = 2
        /\ pc[w] = "map" /\ k[w] = 1

\* What one render of a list commits when nothing else runs: the section over
\* one unit per entry, in order, keyed by index, each with its Feature card.
AloneOutput(list) ==
    Section([i \in 1..Len(list) |->
                [type |-> "Feature", key |-> i - 1, props |-> list[i],
                 rendered |-> Feature(list[i])]])

\* C13: renders of several page views interleaved step by step do not disturb
\* one another. A step of one render leaves FeatureList and every other
\* render's array, returned tree, cards and output as they were, and whatever a
\* render commits is what it commits when run alone.
C13_InterleavedRendersIndependent ==
    [][/\ FeatureList' = FeatureList
       /\ \A v \in Views :
             /\ (pc'[v] = pc[v] /\ k'[v] = k[v]) =>
                   /\ elems'[v] = elems[v]
                   /\ tree'[v] = tree[v]
                   /\ cards'[v] = cards[v]
                   /\ output'[v] = output[v]
             /\ output'[v] # NotRendered => output'[v] = AloneOutput(FeatureList)]_vars

C13_Witness ==
    /\ Len(FeatureList) = 2
    /\ FeatureList[1] # FeatureList[2]
    /\ pc["view1"] = "map" /\ k["view1"] = 1
    /\ pc["view2"] = "features" /\ k["view2"] = 1
    /\ output["view1"] = AloneOutput(FeatureList)
    /\ output["view2"] = AloneOutput(FeatureList)

\* C14: the declared FeatureList has exactly two entries, 'Workload Identities
\* in AKS' -> /docs/aks/aks-workload-identity, then 'Scaling pods and nodes in
\* AKS' -> /docs/aks/aks-scaling; titles and linkTo values are pairwise
\* distinct, so the homepage commits two cards, in that order, whose links
\* have different targets.
C14_DeclaredListTwoDistinctEntries ==
    /\ Len(FeatureList) = 2
    /\ FeatureList[1].title = "Workload Identities in AKS"
    /\ FeatureList[1].linkTo = "/docs/aks/aks-workload-identity"
    /\ FeatureList[2].title = "Scaling pods and nodes in AKS"
    /\ FeatureList[2].linkTo = "/docs/aks/aks-scaling"
    /\ \A i, j \in 1..Len(FeatureList) :
          i # j => /\ FeatureList[i].title # FeatureList[j].title
                   /\ FeatureList[i].linkTo # FeatureList[j].linkTo
    /\ \A v \in Views :
          Rendered(v) =>
              /\ Len(Units(v)) = 2
              /\ \A i, j \in 1..Len(Units(v)) :
                    i # j =>
                        /\ IsCard(Units(v)[i].rendered)
                        /\ IsCard(Units(v)[j].rendered)
                        /\ PartsOfType(Units(v)[i].rendered, "Link")[1].props.to
                              # PartsOfType(Units(v)[j].rendered, "Link")[1].props.to
                        /\ PartsOfType(Units(v)[i].rendered, "Heading")[1].props.children
                              # PartsOfType(Units(v)[j].rendered, "Heading")[1].props.children

C14_Witness ==
    /\ Len(FeatureList) = 2
    /\ \A v \in Views :
          /\ Rendered(v)
          /\ Len(Units(v)) = 2
          /\ PartsOfType(Units(v)[1].rendered, "Heading")[1].props.children
                = "Workload Identities in AKS"
          /\ PartsOfType(Units(v)[2].rendered, "Heading")[1].props.children
                = "Scaling pods and nodes in AKS"

====
